---- MODULE Spec2Model ----
(***************************************************************************)
(* Model of package btree (src/btree.go): an unbalanced binary tree with   *)
(* a caller-supplied LessFunc, Upsert (insert-or-find) and two depth-first *)
(* traversals.  Node handles (Go pointers) are the integers 1..n in order  *)
(* of allocation; NIL is the nil pointer.  The heap is the three sequences *)
(* Payload, Left and Right, indexed by handle.                             *)
(***************************************************************************)
EXTENDS Integers, Sequences, FiniteSets, TLC

\* Bounds of the model.
MaxNodes == 4     \* node handles a run allocates
MaxReuse == 1     \* Upsert calls that pass an already allocated handle again
MaxTokens == 5    \* words the word count reads from its input

NIL == 0

\* The payloads a caller stores: 3, 5 and 8 are the keys of the documented
\* branch-assignment example; 2 is equivalent to 3 under "half".
Keys == {2, 3, 5, 8}

VARIABLES
    Root,       \* BTree.Root: a handle or NIL
    Left,       \* Node.Left of every allocated handle
    Right,      \* Node.Right of every allocated handle
    Payload,    \* Node.Payload of every allocated handle
    Less,       \* BTree.Less: which LessFunc the caller gave to New
    op,         \* the method called last
    arg,        \* the node handle passed to the last Upsert
    intree,     \* first return value of the last Upsert
    inserted,   \* second return value of the last Upsert
    lessCalls,  \* how many times the last Upsert called b.Less
    visited,    \* the nodes the last traversal passed to walk, in order
    crashed,    \* the process died of unbounded recursion (stack overflow)
    ninserted,  \* Upsert calls so far that returned inserted = true
    nreuse,     \* Upsert calls so far that passed an old handle again
    Count       \* wordcount: stringcount.count of every allocated handle

vars == <<Root, Left, Right, Payload, Less, op, arg, intree, inserted,
          lessCalls, visited, crashed, ninserted, nreuse, Count>>

----------------------------------------------------------------------------
\* The caller-supplied comparison.

\* LessFuncs a caller may give to New.  "lt" is wordcount's lessFunc (the
\* payload's natural order); "half" compares only a part of the payload, as
\* the README's person example compares only the name, so distinct payloads
\* can be equivalent; "true", "le" and "ne" violate the ordering contract.
LessKinds == {"lt", "half", "true", "le", "ne"}

\* Go's < on two strings, each a sequence of bytes: x is a proper prefix of
\* y, or x has the smaller byte where they first differ.
LexLess(x, y) ==
    \E i \in 1 .. Len(y) :
        /\ \A j \in 1 .. i - 1 : j <= Len(x) /\ x[j] = y[j]
        /\ i > Len(x) \/ x[i] < y[i]

LessOn(kind, x, y) ==
    CASE kind = "lt"   -> x < y
      [] kind = "str"  -> LexLess(x, y)
      [] kind = "half" -> (x \div 2) < (y \div 2)
      [] kind = "true" -> TRUE
      [] kind = "le"   -> x <= y
      [] kind = "ne"   -> x # y

\* b.Less(a, b) on two node handles of heap t.
LessFunc(t, a, b) == LessOn(Less, t.Payload[a], t.Payload[b])

\* The ordering contract: kind is a strict weak ordering of the keys.
StrictWeak(kind) ==
    /\ \A x \in Keys : ~LessOn(kind, x, x)
    /\ \A x, y \in Keys : LessOn(kind, x, y) => ~LessOn(kind, y, x)
    /\ \A x, y, z \in Keys :
          LessOn(kind, x, y) /\ LessOn(kind, y, z) => LessOn(kind, x, z)
    /\ \A x, y, z \in Keys :
          /\ ~LessOn(kind, x, y) /\ ~LessOn(kind, y, x)
          /\ ~LessOn(kind, y, z) /\ ~LessOn(kind, z, y)
          => ~LessOn(kind, x, z) /\ ~LessOn(kind, z, x)

\* Neither is less than the other.
Equiv(t, a, b) == ~LessFunc(t, a, b) /\ ~LessFunc(t, b, a)

----------------------------------------------------------------------------
\* The heap and the tree as one value.

Tree == [Root |-> Root, Left |-> Left, Right |-> Right, Payload |-> Payload]

\* &btree.Node{Payload: k}: a fresh node, Left and Right nil.
NewNode(t, k) ==
    [t EXCEPT !.Payload = Append(@, k),
              !.Left = Append(@, NIL),
              !.Right = Append(@, NIL)]

\* A call that never returns: the recursion re-entered a node that is still
\* on the call stack, nothing has changed since, so it recurses for ever and
\* the Go runtime ends the process with a stack overflow.
Diverged(t) ==
    [t |-> t, intree |-> NIL, inserted |-> FALSE, calls |-> 0, diverges |-> TRUE]

----------------------------------------------------------------------------
\* Upsert.

\* Faulty variants of upsertFrom and Upsert.  None is part of the model: each
\* is what a slip in the code would give, and replaces the operator it is a
\* variant of when a property is tested for depending on it.

\* The default case returns n instead of from.
RECURSIVE upsertFromReturnsNew(_, _, _, _, _)
upsertFromReturnsNew(t, from, n, stack, calls) ==
    IF from \in stack THEN Diverged(t)
    ELSE IF LessFunc(t, from, n) THEN
        IF t.Left[from] = NIL
        THEN [t |-> [t EXCEPT !.Left[from] = n], intree |-> n,
              inserted |-> TRUE, calls |-> calls + 1, diverges |-> FALSE]
        ELSE upsertFromReturnsNew(t, t.Left[from], n, stack \cup {from}, calls + 1)
    ELSE IF LessFunc(t, n, from) THEN
        IF t.Right[from] = NIL
        THEN [t |-> [t EXCEPT !.Right[from] = n], intree |-> n,
              inserted |-> TRUE, calls |-> calls + 2, diverges |-> FALSE]
        ELSE upsertFromReturnsNew(t, t.Right[from], n, stack \cup {from}, calls + 2)
    ELSE [t |-> t, intree |-> n, inserted |-> FALSE, calls |-> calls + 2,
          diverges |-> FALSE]

\* The two cases are tested in the other order: Less(n, from) goes Left.
RECURSIVE upsertFromSwapped(_, _, _, _, _)
upsertFromSwapped(t, from, n, stack, calls) ==
    IF from \in stack THEN Diverged(t)
    ELSE IF LessFunc(t, n, from) THEN
        IF t.Left[from] = NIL
        THEN [t |-> [t EXCEPT !.Left[from] = n], intree |-> n,
              inserted |-> TRUE, calls |-> calls + 1, diverges |-> FALSE]
        ELSE upsertFromSwapped(t, t.Left[from], n, stack \cup {from}, calls + 1)
    ELSE IF LessFunc(t, from, n) THEN
        IF t.Right[from] = NIL
        THEN [t |-> [t EXCEPT !.Right[from] = n], intree |-> n,
              inserted |-> TRUE, calls |-> calls + 2, diverges |-> FALSE]
        ELSE upsertFromSwapped(t, t.Right[from], n, stack \cup {from}, calls + 2)
    ELSE [t |-> t, intree |-> from, inserted |-> FALSE, calls |-> calls + 2,
          diverges |-> FALSE]

\* The second case is a plain default: what is not Left goes Right, and an
\* equivalent node is never found.
RECURSIVE upsertFromNoEquiv(_, _, _, _, _)
upsertFromNoEquiv(t, from, n, stack, calls) ==
    IF from \in stack THEN Diverged(t)
    ELSE IF LessFunc(t, from, n) THEN
        IF t.Left[from] = NIL
        THEN [t |-> [t EXCEPT !.Left[from] = n], intree |-> n,
              inserted |-> TRUE, calls |-> calls + 1, diverges |-> FALSE]
        ELSE upsertFromNoEquiv(t, t.Left[from], n, stack \cup {from}, calls + 1)
    ELSE
        IF t.Right[from] = NIL
        THEN [t |-> [t EXCEPT !.Right[from] = n], intree |-> n,
              inserted |-> TRUE, calls |-> calls + 1, diverges |-> FALSE]
        ELSE upsertFromNoEquiv(t, t.Right[from], n, stack \cup {from}, calls + 1)

\* The default case links n below the node found before it returns false.
RECURSIVE upsertFromLinksOnFound(_, _, _, _, _)
upsertFromLinksOnFound(t, from, n, stack, calls) ==
    IF from \in stack THEN Diverged(t)
    ELSE IF LessFunc(t, from, n) THEN
        IF t.Left[from] = NIL
        THEN [t |-> [t EXCEPT !.Left[from] = n], intree |-> n,
              inserted |-> TRUE, calls |-> calls + 1, diverges |-> FALSE]
        ELSE upsertFromLinksOnFound(t, t.Left[from], n, stack \cup {from}, calls + 1)
    ELSE IF LessFunc(t, n, from) THEN
        IF t.Right[from] = NIL
        THEN [t |-> [t EXCEPT !.Right[from] = n], intree |-> n,
              inserted |-> TRUE, calls |-> calls + 2, diverges |-> FALSE]
        ELSE upsertFromLinksOnFound(t, t.Right[from], n, stack \cup {from}, calls + 2)
    ELSE [t |-> [t EXCEPT !.Right[from] = n], intree |-> from,
          inserted |-> FALSE, calls |-> calls + 2, diverges |-> FALSE]

\* The recursion passes from again instead of from.Left.
RECURSIVE upsertFromSameNode(_, _, _, _, _)
upsertFromSameNode(t, from, n, stack, calls) ==
    IF from \in stack THEN Diverged(t)
    ELSE IF LessFunc(t, from, n) THEN
        IF t.Left[from] = NIL
        THEN [t |-> [t EXCEPT !.Left[from] = n], intree |-> n,
              inserted |-> TRUE, calls |-> calls + 1, diverges |-> FALSE]
        ELSE upsertFromSameNode(t, from, n, stack \cup {from}, calls + 1)
    ELSE IF LessFunc(t, n, from) THEN
        IF t.Right[from] = NIL
        THEN [t |-> [t EXCEPT !.Right[from] = n], intree |-> n,
              inserted |-> TRUE, calls |-> calls + 2, diverges |-> FALSE]
        ELSE upsertFromSameNode(t, t.Right[from], n, stack \cup {from}, calls + 2)
    ELSE [t |-> t, intree |-> from, inserted |-> FALSE, calls |-> calls + 2,
          diverges |-> FALSE]

\* The slot is assigned without the test for nil: a child already there,
\* and all below it, is dropped.
RECURSIVE upsertFromOverwrites(_, _, _, _, _)
upsertFromOverwrites(t, from, n, stack, calls) ==
    IF from \in stack THEN Diverged(t)
    ELSE IF LessFunc(t, from, n) THEN
        [t |-> [t EXCEPT !.Left[from] = n], intree |-> n,
         inserted |-> TRUE, calls |-> calls + 1, diverges |-> FALSE]
    ELSE IF LessFunc(t, n, from) THEN
        IF t.Right[from] = NIL
        THEN [t |-> [t EXCEPT !.Right[from] = n], intree |-> n,
              inserted |-> TRUE, calls |-> calls + 2, diverges |-> FALSE]
        ELSE upsertFromOverwrites(t, t.Right[from], n, stack \cup {from}, calls + 2)
    ELSE [t |-> t, intree |-> from, inserted |-> FALSE, calls |-> calls + 2,
          diverges |-> FALSE]

\* The code's upsertFrom.  stack holds the nodes of the calls that have not
\* returned; calls counts the calls of b.Less.
RECURSIVE upsertFrom(_, _, _, _, _)
upsertFrom(t, from, n, stack, calls) ==
    IF from \in stack THEN Diverged(t)
    ELSE IF LessFunc(t, from, n) THEN
        IF t.Left[from] = NIL
        THEN [t |-> [t EXCEPT !.Left[from] = n], intree |-> n,
              inserted |-> TRUE, calls |-> calls + 1, diverges |-> FALSE]
        ELSE upsertFrom(t, t.Left[from], n, stack \cup {from}, calls + 1)
    ELSE IF LessFunc(t, n, from) THEN
        IF t.Right[from] = NIL
        THEN [t |-> [t EXCEPT !.Right[from] = n], intree |-> n,
              inserted |-> TRUE, calls |-> calls + 2, diverges |-> FALSE]
        ELSE upsertFrom(t, t.Right[from], n, stack \cup {from}, calls + 2)
    ELSE [t |-> t, intree |-> from, inserted |-> FALSE, calls |-> calls + 2,
          diverges |-> FALSE]

\* The empty tree takes n as its root but reports it as not inserted.
UpsertEmptyNotInserted(t, n) ==
    IF t.Root = NIL
    THEN [t |-> [t EXCEPT !.Root = n], intree |-> n, inserted |-> FALSE,
          calls |-> 0, diverges |-> FALSE]
    ELSE upsertFrom(t, t.Root, n, {}, 0)

\* The test for the empty tree is lost: every n becomes the root.
UpsertAlwaysRoot(t, n) ==
    [t |-> [t EXCEPT !.Root = n], intree |-> n, inserted |-> TRUE,
     calls |-> 0, diverges |-> FALSE]

\* The code's Upsert.
Upsert(t, n) ==
    IF t.Root = NIL
    THEN [t |-> [t EXCEPT !.Root = n], intree |-> n, inserted |-> TRUE,
          calls |-> 0, diverges |-> FALSE]
    ELSE upsertFrom(t, t.Root, n, {}, 0)

----------------------------------------------------------------------------
\* Traversals.  A traversal yields the sequence of nodes passed to walk.

\* Faulty variant: the right subtree is walked only when there is no left one.
RECURSIVE depthFirstInOrderFromElseRight(_, _, _)
depthFirstInOrderFromElseRight(t, n, stack) ==
    IF n \in stack THEN [seq |-> <<>>, diverges |-> TRUE]
    ELSE IF t.Left[n] # NIL THEN
      LET l == depthFirstInOrderFromElseRight(t, t.Left[n], stack \cup {n})
      IN [seq |-> l.seq \o <<n>>, diverges |-> l.diverges]
    ELSE
      LET r == IF t.Right[n] # NIL
               THEN depthFirstInOrderFromElseRight(t, t.Right[n], stack \cup {n})
               ELSE [seq |-> <<>>, diverges |-> FALSE]
      IN [seq |-> <<n>> \o r.seq, diverges |-> r.diverges]

\* The code's depthFirstInOrderFrom.  stack holds the nodes of the calls that
\* have not returned.
RECURSIVE depthFirstInOrderFrom(_, _, _)
depthFirstInOrderFrom(t, n, stack) ==
    IF n \in stack THEN [seq |-> <<>>, diverges |-> TRUE]
    ELSE
      LET l == IF t.Left[n] # NIL
               THEN depthFirstInOrderFrom(t, t.Left[n], stack \cup {n})
               ELSE [seq |-> <<>>, diverges |-> FALSE]
      IN IF l.diverges THEN l
         ELSE
           LET r == IF t.Right[n] # NIL
                    THEN depthFirstInOrderFrom(t, t.Right[n], stack \cup {n})
                    ELSE [seq |-> <<>>, diverges |-> FALSE]
           IN [seq |-> l.seq \o <<n>> \o r.seq, diverges |-> r.diverges]

DepthFirstInOrder(t) ==
    IF t.Root = NIL THEN [seq |-> <<>>, diverges |-> FALSE]
    ELSE depthFirstInOrderFrom(t, t.Root, {})

\* Variant of depthFirstReverseFrom that recurses into itself, and so
\* reverses at every level.
RECURSIVE depthFirstReverseFromMirrored(_, _, _)
depthFirstReverseFromMirrored(t, n, stack) ==
    IF n \in stack THEN [seq |-> <<>>, diverges |-> TRUE]
    ELSE
      LET r == IF t.Right[n] # NIL
               THEN depthFirstReverseFromMirrored(t, t.Right[n], stack \cup {n})
               ELSE [seq |-> <<>>, diverges |-> FALSE]
      IN IF r.diverges THEN r
         ELSE
           LET l == IF t.Left[n] # NIL
                    THEN depthFirstReverseFromMirrored(t, t.Left[n], stack \cup {n})
                    ELSE [seq |-> <<>>, diverges |-> FALSE]
           IN [seq |-> r.seq \o <<n>> \o l.seq, diverges |-> l.diverges]

\* The code's depthFirstReverseFrom.
depthFirstReverseFrom(t, n, stack) ==
    LET r == IF t.Right[n] # NIL
             THEN depthFirstInOrderFrom(t, t.Right[n], stack \cup {n})
             ELSE [seq |-> <<>>, diverges |-> FALSE]
    IN IF r.diverges THEN r
       ELSE
         LET l == IF t.Left[n] # NIL
                  THEN depthFirstInOrderFrom(t, t.Left[n], stack \cup {n})
                  ELSE [seq |-> <<>>, diverges |-> FALSE]
         IN [seq |-> r.seq \o <<n>> \o l.seq, diverges |-> l.diverges]

DepthFirstReverse(t) ==
    IF t.Root = NIL THEN [seq |-> <<>>, diverges |-> FALSE]
    ELSE depthFirstReverseFrom(t, t.Root, {})

----------------------------------------------------------------------------
\* The state machine.

\* btree.New(less): an empty tree.
Init ==
    /\ Root = NIL
    /\ Left = <<>>
    /\ Right = <<>>
    /\ Payload = <<>>
    /\ Less \in LessKinds
    /\ op = "New"
    /\ arg = NIL
    /\ intree = NIL
    /\ inserted = FALSE
    /\ lessCalls = 0
    /\ visited = <<>>
    /\ crashed = FALSE
    /\ ninserted = 0
    /\ nreuse = 0
    /\ Count = <<>>

\* The effect of b.Upsert(n) on heap t.
DoUpsert(t, n) ==
    LET r == Upsert(t, n) IN
    /\ Root' = r.t.Root
    /\ Left' = r.t.Left
    /\ Right' = r.t.Right
    /\ Payload' = r.t.Payload
    /\ op' = "Upsert"
    /\ arg' = n
    /\ intree' = r.intree
    /\ inserted' = r.inserted
    /\ lessCalls' = r.calls
    /\ visited' = <<>>
    /\ crashed' = r.diverges
    /\ ninserted' = IF r.inserted THEN ninserted + 1 ELSE ninserted
    /\ UNCHANGED Less

\* b.Upsert(&btree.Node{Payload: k}).
UpsertNew(k) ==
    /\ ~crashed
    /\ Len(Payload) < MaxNodes
    /\ DoUpsert(NewNode(Tree, k), Len(Payload) + 1)
    /\ UNCHANGED <<nreuse, Count>>

\* b.Upsert(n) with a handle n that was passed to Upsert before.
UpsertAgain(n) ==
    /\ ~crashed
    /\ nreuse < MaxReuse
    /\ DoUpsert(Tree, n)
    /\ nreuse' = nreuse + 1
    /\ UNCHANGED Count

\* Faulty variant of DoWalk: the traversal unlinks the left subtree of every
\* node it has visited.
DoWalkUnlinks(name, r) ==
    /\ op' = name
    /\ visited' = r.seq
    /\ crashed' = r.diverges
    /\ arg' = NIL
    /\ intree' = NIL
    /\ inserted' = FALSE
    /\ lessCalls' = 0
    /\ Left' = [x \in 1 .. Len(Left) |->
                  IF \E i \in 1 .. Len(r.seq) : r.seq[i] = x THEN NIL ELSE Left[x]]
    /\ UNCHANGED <<Root, Right, Payload, Less, ninserted, nreuse, Count>>

\* The effect of a traversal that yields r.
DoWalk(name, r) ==
    /\ op' = name
    /\ visited' = r.seq
    /\ crashed' = r.diverges
    /\ arg' = NIL
    /\ intree' = NIL
    /\ inserted' = FALSE
    /\ lessCalls' = 0
    /\ UNCHANGED <<Root, Left, Right, Payload, Less, ninserted, nreuse, Count>>

WalkInOrder ==
    /\ ~crashed
    /\ DoWalk("DepthFirstInOrder", DepthFirstInOrder(Tree))

WalkReverse ==
    /\ ~crashed
    /\ DoWalk("DepthFirstReverse", DepthFirstReverse(Tree))

Next ==
    \/ \E k \in Keys : UpsertNew(k)
    \/ \E n \in 1 .. Len(Payload) : UpsertAgain(n)
    \/ WalkInOrder
    \/ WalkReverse

Spec == Init /\ [][Next]_vars

----------------------------------------------------------------------------
\* The word count (src/main/wordcount.go): one Upsert per word read, then one
\* DepthFirstInOrder that prints.  The payload of a node is the word, a
\* string of bytes; Count holds the counter beside it.

The == <<116, 104, 101>>
Quick == <<113, 117, 105, 99, 107>>
Fox == <<102, 111, 120>>
Th == <<116, 104>>

\* The words the scanner may deliver.
Words == {The, Quick, Fox, Th}

\* bt := btree.New(lessFunc).
InitWC ==
    /\ Root = NIL
    /\ Left = <<>>
    /\ Right = <<>>
    /\ Payload = <<>>
    /\ Less = "str"
    /\ op = "New"
    /\ arg = NIL
    /\ intree = NIL
    /\ inserted = FALSE
    /\ lessCalls = 0
    /\ visited = <<>>
    /\ crashed = FALSE
    /\ ninserted = 0
    /\ nreuse = 0
    /\ Count = <<>>

\* Faulty variant of ScanWord: the counter is incremented only when the word
\* was found, as in the alternative the source comments out, but the fresh
\* node still starts at zero.
ScanWordCountsFound(w) ==
    /\ ~crashed
    /\ op # "DepthFirstInOrder"
    /\ Len(Payload) < MaxTokens
    /\ DoUpsert(NewNode(Tree, w), Len(Payload) + 1)
    /\ Count' = IF inserted' THEN Append(Count, 0)
                ELSE [Append(Count, 0) EXCEPT ![intree'] = @ + 1]
    /\ UNCHANGED nreuse

\* One turn of the loop: sc.Scan() delivers w, a fresh node with count zero
\* is upserted and the counter of the node returned is incremented.
ScanWord(w) ==
    /\ ~crashed
    /\ op # "DepthFirstInOrder"
    /\ Len(Payload) < MaxTokens
    /\ DoUpsert(NewNode(Tree, w), Len(Payload) + 1)
    /\ Count' = [Append(Count, 0) EXCEPT ![intree'] = @ + 1]
    /\ UNCHANGED nreuse

\* End of input: bt.DepthFirstInOrder(nodeWalk).
PrintCounts ==
    /\ ~crashed
    /\ op # "DepthFirstInOrder"
    /\ DoWalk("DepthFirstInOrder", DepthFirstInOrder(Tree))

\* What nodeWalk has printed: count and word of every node visited.
Printed == [i \in 1 .. Len(visited) |-> <<Count[visited[i]], Payload[visited[i]]>>]

NextWC ==
    \/ \E w \in Words : ScanWord(w)
    \/ PrintCounts

SpecWC == InitWC /\ [][NextWC]_vars

----------------------------------------------------------------------------
\* Vocabulary of the properties.

Range(s) == {s[i] : i \in 1 .. Len(s)}

Reverse(s) == [i \in 1 .. Len(s) |-> s[Len(s) + 1 - i]]

RECURSIVE Closure(_, _)
Closure(t, S) ==
    LET S2 == (S \cup {t.Left[x] : x \in S} \cup {t.Right[x] : x \in S}) \ {NIL}
    IN IF S2 = S THEN S ELSE Closure(t, S2)

\* The nodes reachable from n through Left and Right, n included.
Subtree(t, n) == IF n = NIL THEN {} ELSE Closure(t, {n})

\* The nodes of the tree.
NodesOf(t) == Subtree(t, t.Root)

\* Every allocated handle was passed to Upsert, in the order of the handles.
Upserted(t) == 1 .. Len(t.Payload)

\* The first node upserted among those equivalent to n.
FirstEquiv(t, n) ==
    CHOOSE h \in Upserted(t) :
        /\ Equiv(t, h, n)
        /\ \A g \in Upserted(t) : g < h => ~Equiv(t, g, n)

\* One representative per equivalence class: the first one upserted.
Firsts(t) == {h \in Upserted(t) : \A g \in Upserted(t) : g < h => ~Equiv(t, g, h)}

Walks == {"DepthFirstInOrder", "DepthFirstReverse"}

----------------------------------------------------------------------------
\* Properties.

\* C1: with a strict weak ordering, DepthFirstInOrder and DepthFirstReverse
\* each pass to walk every node of the tree exactly once and nothing else, and
\* these nodes are exactly the first-upserted representatives of the
\* equivalence classes of the payloads upserted; before any Upsert the
\* visitor is not called at all.
C1_TraversalVisitsDistinctUpserted ==
    op \in Walks =>
        /\ Len(Payload) = 0 => visited = <<>>
        /\ StrictWeak(Less) =>
              /\ ~crashed
              /\ Range(visited) = NodesOf(Tree)
              /\ Len(visited) = Cardinality(NodesOf(Tree))
              /\ Range(visited) = Firsts(Tree)

C1_Witness ==
    /\ op = "DepthFirstReverse"
    /\ Less = "half"
    /\ Payload = <<3, 8, 2, 5>>
    /\ Len(visited) = 3

\* C2: with a strict weak ordering, an Upsert(n) when the tree already holds
\* a node equivalent to n returns inserted = false and that node, which is
\* the same handle for every Upsert of that equivalence class (the first one
\* upserted); an Upsert(n) when the tree holds no equivalent returns
\* inserted = true and n itself.
C2_UpsertIdempotent ==
    [][ op' = "Upsert" /\ StrictWeak(Less) =>
          LET present == {x \in NodesOf(Tree) : Equiv(Tree', x, arg')} IN
          /\ ~crashed'
          /\ intree' = FirstEquiv(Tree', arg')
          /\ present # {} => ~inserted' /\ intree' \in present
          /\ present = {} => inserted' /\ intree' = arg'
      ]_vars

C2_Witness ==
    /\ op = "Upsert"
    /\ Less = "half"
    /\ Payload = <<5, 3, 2, 3>>
    /\ nreuse = 0
    /\ arg = 4
    /\ intree = 2
    /\ ~inserted

\* C3: Upsert(n) on an empty tree makes n the root and returns (n, true)
\* without calling Less; a DepthFirstInOrder or DepthFirstReverse that
\* follows it visits exactly that node.
C3_UpsertOnEmpty ==
    [][ /\ Root = NIL /\ op' = "Upsert" =>
              /\ Root' = arg'
              /\ intree' = arg'
              /\ inserted'
              /\ lessCalls' = 0
              /\ ~crashed'
        /\ Len(Payload) = 1 /\ nreuse = 0 /\ op' \in Walks =>
              /\ visited' = <<Root>>
              /\ Root = 1
              /\ ~crashed'
      ]_vars

C3_Witness ==
    /\ op = "DepthFirstReverse"
    /\ Len(Payload) = 1
    /\ nreuse = 0
    /\ Root = 1
    /\ visited = <<1>>

\* The payloads of a sequence of nodes.
PayloadsOf(s) == [i \in 1 .. Len(s) |-> Payload[s[i]]]

\* C4 as stated: with a strict weak ordering every node of x's Left subtree
\* is less than x and every node of x's Right subtree is greater than x; after
\* upserting 5, 3, 8 with numeric Less, 3 is the Left and 8 the Right child
\* of 5.
C4_LeftIsLess ==
    StrictWeak(Less) =>
        /\ \A x \in NodesOf(Tree) :
              /\ \A y \in Subtree(Tree, Left[x]) : LessFunc(Tree, y, x)
              /\ \A y \in Subtree(Tree, Right[x]) : LessFunc(Tree, x, y)
        /\ Less = "lt" /\ Len(Payload) >= 3 /\ SubSeq(Payload, 1, 3) = <<5, 3, 8>>
              => Payload[Left[1]] = 3 /\ Payload[Right[1]] = 8

\* C4 as amended: with a strict weak ordering every node of x's Left subtree
\* is GREATER than x (Less(x, y)) and every node of x's Right subtree is LESS
\* than x (Less(y, x)); after upserting 5, 3, 8 with numeric Less, 8 is the
\* Left and 3 the Right child of 5.
C4_LeftIsGreater ==
    StrictWeak(Less) =>
        /\ \A x \in NodesOf(Tree) :
              /\ \A y \in Subtree(Tree, Left[x]) : LessFunc(Tree, x, y)
              /\ \A y \in Subtree(Tree, Right[x]) : LessFunc(Tree, y, x)
        /\ Less = "lt" /\ Len(Payload) >= 3 /\ SubSeq(Payload, 1, 3) = <<5, 3, 8>>
              => Payload[Left[1]] = 8 /\ Payload[Right[1]] = 3

C4_Witness ==
    /\ Less = "lt"
    /\ Payload = <<5, 3, 8, 2>>
    /\ Root = 1
    /\ Left = <<3, 0, 0, 0>>
    /\ Right = <<2, 4, 0, 0>>

\* C5: with a strict weak ordering DepthFirstInOrder visits the nodes in
\* strictly descending order: each node visited is less than the one visited
\* just before it.
C5_InOrderDescending ==
    StrictWeak(Less) /\ op = "DepthFirstInOrder" =>
        \A i \in 1 .. Len(visited) - 1 :
            LessFunc(Tree, visited[i + 1], visited[i])

C5_Witness ==
    /\ op = "DepthFirstInOrder"
    /\ Less = "lt"
    /\ Payload = <<3, 8, 2, 5>>
    /\ PayloadsOf(visited) = <<8, 5, 3, 2>>

\* C6: the nodes DepthFirstReverse visits are, in order, the reverse of what
\* DepthFirstInOrder visits on the same tree.
C6_ReverseIsMirror ==
    StrictWeak(Less) /\ nreuse = 0 /\ op = "DepthFirstReverse" =>
        visited = Reverse(DepthFirstInOrder(Tree).seq)

\* C7: with a strict weak ordering no two distinct nodes of the tree are
\* equivalent, and the tree has as many nodes as Upsert calls have returned
\* inserted = true.
C7_NoDuplicates ==
    StrictWeak(Less) =>
        /\ \A x, y \in NodesOf(Tree) :
              x # y => LessFunc(Tree, x, y) \/ LessFunc(Tree, y, x)
        /\ Cardinality(NodesOf(Tree)) = ninserted

C7_Witness ==
    /\ Less = "half"
    /\ Payload = <<3, 5, 2, 5>>
    /\ nreuse = 1
    /\ ninserted = 2
    /\ NodesOf(Tree) = {1, 2}

\* C8: Root is nil exactly as long as Upsert has not been called; the first
\* Upsert sets it, to its argument; no later call of any method changes it.
C8_RootSetOnce ==
    [][ /\ Root = NIL <=> Len(Payload) + nreuse = 0
        /\ Root' = NIL <=> Len(Payload') + nreuse' = 0
        /\ Root = NIL /\ op' = "Upsert" => Root' = arg' /\ Root' # NIL /\ inserted'
        /\ Root # Root' => Root = NIL /\ op' = "Upsert"
      ]_vars

C8_Witness ==
    /\ Root = 1
    /\ ninserted = 4
    /\ Right[1] # NIL
    /\ op = "DepthFirstReverse"
    /\ Len(visited) = 4

\* C9 as stated: an Upsert(n) that returns inserted = false leaves Root and
\* every node's Left and Right as they were, and n is not reachable from
\* Root.
C9_NotInsertedUnreachable ==
    [][ op' = "Upsert" /\ ~crashed' /\ ~inserted' =>
          /\ Root' = Root
          /\ \A x \in 1 .. Len(Payload) : Left'[x] = Left[x] /\ Right'[x] = Right[x]
          /\ arg' \notin NodesOf(Tree')
      ]_vars

\* C9 as amended: an Upsert(n) that returns inserted = false leaves Root and
\* every node's Left and Right as they were, and n is reachable from Root
\* after the call only if it was before it (n was in the tree already, and
\* is the node returned).
C9_NotInsertedFrame ==
    [][ op' = "Upsert" /\ ~crashed' /\ ~inserted' =>
          /\ Root' = Root
          /\ \A x \in 1 .. Len(Payload) : Left'[x] = Left[x] /\ Right'[x] = Right[x]
          /\ \A x \in 1 .. Len(Payload') : x \notin 1 .. Len(Payload) =>
                Left'[x] = NIL /\ Right'[x] = NIL
          /\ NodesOf(Tree') = NodesOf(Tree)
          /\ arg' \in NodesOf(Tree') => arg' \in NodesOf(Tree) /\ intree' = arg'
      ]_vars

C9_Witness ==
    /\ op = "Upsert"
    /\ ~inserted
    /\ Less = "half"
    /\ Payload = <<3, 5, 8, 2>>
    /\ arg = 4
    /\ intree = 1
    /\ NodesOf(Tree) = {1, 2, 3}

\* C10 as stated: with a Less that violates the ordering contract every
\* Upsert, whatever node handle it is given, and every traversal returns.
C10_NeverCrashes ==
    ~StrictWeak(Less) => ~crashed

\* C10 as amended: with a Less that violates the ordering contract every
\* Upsert of a fresh node (Left and Right nil, not passed to Upsert before)
\* and every traversal of a tree built by such calls returns: Upsert returns
\* a node of the tree and a traversal visits every node once.
C10_FreshNeverCrashes ==
    ~StrictWeak(Less) /\ nreuse = 0 =>
        /\ ~crashed
        /\ op = "Upsert" => intree \in NodesOf(Tree)
        /\ op \in Walks =>
              /\ Range(visited) = NodesOf(Tree)
              /\ Len(visited) = Cardinality(NodesOf(Tree))

C10_Witness ==
    /\ Less = "true"
    /\ nreuse = 0
    /\ Len(Payload) = 4
    /\ op = "DepthFirstInOrder"
    /\ Len(visited) = 4

\* How often w occurs in the sequence s.
Occurrences(s, w) == Cardinality({i \in 1 .. Len(s) : s[i] = w})

\* C11: in the word count, whatever words were read (Payload is the words in
\* the order read), the tree holds exactly one node per distinct word and its
\* counter is the number of times the word was read; after "the quick the
\* fox the" the tree holds exactly (fox, 1), (quick, 1), (the, 3).
C11_WordCounts ==
    /\ ~crashed
    /\ \A w \in Range(Payload) :
          LET ns == {x \in NodesOf(Tree) : Payload[x] = w} IN
          /\ Cardinality(ns) = 1
          /\ \A x \in ns : Count[x] = Occurrences(Payload, w)
    /\ Cardinality(NodesOf(Tree)) = Cardinality(Range(Payload))
    /\ Payload = <<The, Quick, The, Fox, The>> =>
          {<<Payload[x], Count[x]>> : x \in NodesOf(Tree)}
              = {<<Fox, 1>>, <<Quick, 1>>, <<The, 3>>}

C11_Witness ==
    /\ Payload = <<The, Quick, The, Fox, The>>
    /\ op = "DepthFirstInOrder"
    /\ Printed = <<<<3, The>>, <<1, Quick>>, <<1, Fox>>>>

\* C12: Upsert descends by the rule Less(cur, n) -> cur.Left, else
\* Less(n, cur) -> cur.Right, else return (cur, false): a node inserted hangs
\* Left of a parent it is greater than or Right of a parent it is less than,
\* and so for every node above it; a node returned as found is equivalent to
\* n; hence, with a strict weak ordering, after every Upsert every node x is
\* less than all of its Left subtree and greater than all of its Right
\* subtree.
C12_DescentRule ==
    [][ op' = "Upsert" /\ ~crashed' /\ Root # NIL =>
          /\ inserted' =>
                \E p \in 1 .. Len(Payload) :
                    \/ /\ Left[p] = NIL /\ Left'[p] = arg'
                       /\ LessFunc(Tree', p, arg')
                    \/ /\ Right[p] = NIL /\ Right'[p] = arg'
                       /\ ~LessFunc(Tree', p, arg')
                       /\ LessFunc(Tree', arg', p)
          /\ inserted' /\ nreuse' = 0 =>
                \A a \in NodesOf(Tree) :
                    /\ arg' \in Subtree(Tree', Left'[a]) => LessFunc(Tree', a, arg')
                    /\ arg' \in Subtree(Tree', Right'[a]) =>
                          ~LessFunc(Tree', a, arg') /\ LessFunc(Tree', arg', a)
          /\ ~inserted' => intree' \in NodesOf(Tree) /\ Equiv(Tree', intree', arg')
          /\ StrictWeak(Less) =>
                \A x \in NodesOf(Tree') :
                    /\ \A y \in Subtree(Tree', Left'[x]) : LessFunc(Tree', x, y)
                    /\ \A y \in Subtree(Tree', Right'[x]) : LessFunc(Tree', y, x)
      ]_vars

C12_Witness ==
    /\ op = "Upsert"
    /\ inserted
    /\ Less = "lt"
    /\ Payload = <<3, 5, 2, 8>>
    /\ arg = 4
    /\ Left[2] = 4
    /\ Right[1] = 3
    /\ lessCalls = 2

\* C13: an Upsert(n) that returns inserted = true changes exactly one
\* reference, Root of an empty tree or one nil Left or Right of a node of the
\* tree, and makes it n; n is a leaf; every node that was in the tree keeps
\* its parent, its side and its children; the tree gains n and nothing else.
\* (Under the ordering contract, or for any Less when n is a fresh node.)
C13_InsertChangesOneReference ==
    [][ /\ op' = "Upsert" /\ inserted'
        /\ StrictWeak(Less) \/ Len(Payload') > Len(Payload)
        =>
        LET old == 1 .. Len(Payload)
            changedL == {x \in old : Left'[x] # Left[x]}
            changedR == {x \in old : Right'[x] # Right[x]}
            nchanged == Cardinality(changedL) + Cardinality(changedR)
                          + (IF Root' # Root THEN 1 ELSE 0)
        IN
        /\ ~crashed'
        /\ intree' = arg'
        /\ nchanged = 1
        /\ Root = NIL => Root' = arg'
        /\ Root # NIL => Root' = Root
        /\ \A x \in changedL :
              x \in NodesOf(Tree) /\ Left[x] = NIL /\ Left'[x] = arg'
        /\ \A x \in changedR :
              x \in NodesOf(Tree) /\ Right[x] = NIL /\ Right'[x] = arg'
        /\ Left'[arg'] = NIL /\ Right'[arg'] = NIL
        /\ arg' \notin NodesOf(Tree)
        /\ NodesOf(Tree') = NodesOf(Tree) \cup {arg'}
        /\ \A p, x \in NodesOf(Tree) :
              /\ Left[p] = x <=> Left'[p] = x
              /\ Right[p] = x <=> Right'[p] = x
      ]_vars

C13_Witness ==
    /\ op = "Upsert"
    /\ inserted
    /\ Less = "lt"
    /\ Payload = <<5, 8, 3, 2>>
    /\ arg = 4
    /\ Right[3] = 4
    /\ Right[1] = 3
    /\ Cardinality(NodesOf(Tree)) = 4

\* What DepthFirstInOrder visits on the subtree at n.
InOrderOfSubtree(n) == DepthFirstInOrder([Tree EXCEPT !.Root = n]).seq

\* C14: on a populated tree DepthFirstReverse visits what DepthFirstInOrder
\* visits on the subtree at Root.Right, then Root, then what DepthFirstInOrder
\* visits on the subtree at Root.Left; every node of the tree is visited
\* exactly once.
C14_ReverseOnlyAtRoot ==
    /\ op = "DepthFirstReverse" /\ Root # NIL
    /\ StrictWeak(Less) \/ nreuse = 0
    =>
    /\ ~crashed
    /\ visited = InOrderOfSubtree(Right[Root]) \o <<Root>>
                    \o InOrderOfSubtree(Left[Root])
    /\ Range(visited) = NodesOf(Tree)
    /\ Len(visited) = Cardinality(NodesOf(Tree))

C14_Witness ==
    /\ op = "DepthFirstReverse"
    /\ Less = "lt"
    /\ Payload = <<5, 3, 8, 2>>
    /\ PayloadsOf(visited) = <<3, 2, 5, 8>>

\* C15: a traversal leaves Root and every node's Left, Right and Payload as
\* they were; the same traversal called again visits the same sequence; an
\* Upsert after the traversal returns and does what it would have without
\* the traversal.
C15_TraversalLeavesTree ==
    [][ op' \in Walks =>
          /\ Root' = Root
          /\ Left' = Left
          /\ Right' = Right
          /\ Payload' = Payload
          /\ op = op' /\ ~crashed' => visited' = visited
          /\ \A k \in Keys :
                Upsert(NewNode(Tree', k), Len(Payload') + 1)
                    = Upsert(NewNode(Tree, k), Len(Payload) + 1)
          /\ \A n \in 1 .. Len(Payload) : Upsert(Tree', n) = Upsert(Tree, n)
      ]_vars

C15_Witness ==
    /\ op = "DepthFirstInOrder"
    /\ Less = "half"
    /\ Payload = <<5, 2, 8, 3>>
    /\ visited = <<3, 1, 2>>
    /\ Left = <<3, 0, 0, 0>>
    /\ Right = <<2, 0, 0, 0>>

\* kind orders the keys totally: a strict weak ordering under which only
\* equal keys are equivalent.
StrictTotal(kind) ==
    /\ StrictWeak(kind)
    /\ \A x, y \in Keys : x # y => LessOn(kind, x, y) \/ LessOn(kind, y, x)

\* The keys of S from the greatest down.
RECURSIVE Descending(_, _)
Descending(kind, S) ==
    IF S = {} THEN <<>>
    ELSE LET m == CHOOSE x \in S : \A y \in S \ {x} : LessOn(kind, y, x)
         IN <<m>> \o Descending(kind, S \ {m})

\* C16: with a strict total Less the payloads DepthFirstInOrder visits, in
\* order, are a function of the set of payloads upserted alone (the set from
\* its greatest element down), so any two orders of upserting the same
\* payloads give the same visit sequence, whatever the shapes of the trees.
C16_InOrderDependsOnSetOnly ==
    StrictTotal(Less) /\ op = "DepthFirstInOrder" =>
        PayloadsOf(visited) = Descending(Less, Range(Payload))

C16_Witness ==
    /\ op = "DepthFirstInOrder"
    /\ Less = "lt"
    /\ Payload = <<8, 5, 3, 2>>
    /\ Right = <<2, 3, 4, 0>>
    /\ PayloadsOf(visited) = <<8, 5, 3, 2>>

====
